---------------------------- MODULE Spec2Model ----------------------------
(***************************************************************************)
(* A model of stagpy/rprof.py: the numerical helpers (_normprof, _extrap,  *)
(* _calc_energy, initprof), the row-index computation and the chunked      *)
(* average of plotprofiles / plotaveragedprofiles, and the control flow of *)
(* rprof_cmd (plot gating, figures, output files).                         *)
(*                                                                         *)
(* Conventions.  Indices and slices keep Python's 0-based values; a Python *)
(* array is a TLA+ sequence and At / Slice translate the index.  Floating  *)
(* point numbers are modelled by exact rationals <<n, d>> (d > 0, lowest   *)
(* terms): rounding is not modelled.                                       *)
(***************************************************************************)
EXTENDS Integers, Sequences, FiniteSets, TLC

VARIABLES
    nzi,        \* Resolution-Change Table: sequence of <<timestep, nsteps, nrows>>
    steprows,   \* layout of the Profile Table: number of rows of each timestep
    timestep,   \* args.timestep = <<istart, ilast, istep>>
    step,       \* loop variable of plotprofiles
    ir0,        \* start row computed for step
    ir1,        \* end row computed for step
    raised,     \* name of the exception that ended the run, or "none"
    pc,         \* position in the code being run
    fn,         \* the function a call is made to
    argv,       \* the arguments of that call, by parameter name
    ret,        \* the value the call returned
    args,       \* the options of rprof_cmd (args.plot_*, geometry shape)
    args0,      \* the options as rprof_cmd received them
    plt,        \* pyplot: every figure created, and the open ones (last = current)
    files,      \* the files written, in order
    assigned,   \* the local names of rprof_cmd that are bound
    vi          \* position in the loop over the variables being plotted

loopVars == <<nzi, steprows, timestep, step, ir0, ir1>>
callVars == <<fn, argv, ret>>
cmdVars == <<args, args0, plt, files, assigned, vi>>

vars == <<nzi, steprows, timestep, step, ir0, ir1, raised, pc, fn, argv, ret,
          args, args0, plt, files, assigned, vi>>

-----------------------------------------------------------------------------
(* Bounds of the model *)

MaxEpochs == 3
MaxEpochSteps == 2
MaxRows == 2
MaxStride == 2
MaxTableRows == 3
GridDen == 4
MaxSamples == 3
MaxPoints == 3
MaxTargets == 2
MaxAvgSteps == 2
MaxAvgRows == 3
MaxRootDegree == 3
MaxCmdSteps == 3

-----------------------------------------------------------------------------
(* Python sequences *)

\* seq[i] with Python's rule for a negative index
InRange(seq, i) == -Len(seq) <= i /\ i < Len(seq)

At(seq, i) == IF i >= 0 THEN seq[i + 1] ELSE seq[Len(seq) + i + 1]

\* A slice bound as Python resolves it: a negative bound counts from the end,
\* and the result is clipped to 0..len
SliceBound(n, a) ==
    LET b == IF a < 0 THEN a + n ELSE a
    IN  IF b < 0 THEN 0 ELSE IF b > n THEN n ELSE b

\* seq[a:b]
Slice(seq, a, b) ==
    LET lo == SliceBound(Len(seq), a)
        hi == SliceBound(Len(seq), b)
    IN  IF hi <= lo THEN << >> ELSE [k \in 1..(hi - lo) |-> seq[lo + k]]

RECURSIVE SumSeq(_)
SumSeq(seq) == IF seq = << >> THEN 0 ELSE Head(seq) + SumSeq(Tail(seq))

\* sorted(seq): insertion sort
RECURSIVE InsertSorted(_, _)
InsertSorted(x, seq) ==
    IF seq = << >> THEN <<x>>
    ELSE IF x <= Head(seq) THEN <<x>> \o seq
         ELSE <<Head(seq)>> \o InsertSorted(x, Tail(seq))

RECURSIVE sorted(_)
sorted(seq) == IF seq = << >> THEN << >> ELSE InsertSorted(Head(seq), sorted(Tail(seq)))

\* list.index(x): 0-based position of the first occurrence (x is in seq)
index(seq, x) ==
    (CHOOSE i \in 1..Len(seq) : seq[i] = x /\ \A j \in 1..(i - 1) : seq[j] # x) - 1

\* range(a, b, s) as the sequence of its values
RECURSIVE range(_, _, _)
range(a, b, s) == IF a >= b THEN << >> ELSE <<a>> \o range(a + s, b, s)

-----------------------------------------------------------------------------
(* Floating point numbers as exact rationals <<numerator, denominator>> *)

Abs(x) == IF x < 0 THEN -x ELSE x

RECURSIVE GCD(_, _)
GCD(a, b) == IF b = 0 THEN a ELSE GCD(b, a % b)

\* n / d in lowest terms, d # 0
Q(n, d) ==
    LET g == GCD(Abs(n), Abs(d))
        sgn == IF d < 0 THEN -1 ELSE 1
    IN  <<(sgn * n) \div g, (sgn * d) \div g>>

QInt(n) == <<n, 1>>
QAdd(a, b) == Q(a[1] * b[2] + b[1] * a[2], a[2] * b[2])
QSub(a, b) == Q(a[1] * b[2] - b[1] * a[2], a[2] * b[2])
QMul(a, b) == Q(a[1] * b[1], a[2] * b[2])
QDiv(a, b) == Q(a[1] * b[2], a[2] * b[1])
QLt(a, b) == a[1] * b[2] < b[1] * a[2]
QLe(a, b) == a[1] * b[2] <= b[1] * a[2]
QIsZero(a) == a[1] = 0

\* x ** n for a natural n
RECURSIVE QPow(_, _)
QPow(a, n) == IF n = 0 THEN QInt(1) ELSE QMul(a, QPow(a, n - 1))

\* numpy's element-wise operations on 1-D arrays: <<raised, array>>.  Arrays of
\* equal length combine element by element, an array of length 1 is broadcast,
\* any other pair of lengths raises ValueError.
Broadcast(a, n) == IF Len(a) = n THEN a ELSE [k \in 1..n |-> a[1]]

CanCombine(a, b) == Len(a) = Len(b) \/ Len(a) = 1 \/ Len(b) = 1

CombinedLen(a, b) == IF Len(a) >= Len(b) /\ Len(b) # 0 THEN Len(a) ELSE Len(b)

ElemAdd(a, b) ==
    LET n == CombinedLen(a, b)
    IN  [k \in 1..n |-> QAdd(Broadcast(a, n)[k], Broadcast(b, n)[k])]

ElemSub(a, b) ==
    LET n == CombinedLen(a, b)
    IN  [k \in 1..n |-> QSub(Broadcast(a, n)[k], Broadcast(b, n)[k])]

ElemDiv(a, b) ==
    LET n == CombinedLen(a, b)
    IN  [k \in 1..n |-> QDiv(Broadcast(a, n)[k], Broadcast(b, n)[k])]

HasZero(a) == \E k \in 1..Len(a) : QIsZero(a[k])

\* data[rows, col] for a list of rows
Column(rows, col) == [k \in 1..Len(rows) |-> rows[k][col]]

-----------------------------------------------------------------------------
(* The run: epochs of constant resolution, and the table that records them *)

\* One epoch: <<number of timesteps, rows per timestep>>
Epoch == (1..MaxEpochSteps) \X (1..MaxRows)

RECURSIVE EpochListsOfLen(_)
EpochListsOfLen(n) ==
    IF n = 0 THEN {<< >>}
    ELSE {Append(l, e) : l \in EpochListsOfLen(n - 1), e \in Epoch}

\* The resolution changes from each epoch to the next
EpochLists ==
    {l \in UNION {EpochListsOfLen(n) : n \in 1..MaxEpochs} :
        \A k \in 1..(Len(l) - 1) : l[k][2] # l[k + 1][2]}

RECURSIVE RowsOfSteps(_)
RowsOfSteps(l) ==
    IF l = << >> THEN << >>
    ELSE [k \in 1..Head(l)[1] |-> Head(l)[2]] \o RowsOfSteps(Tail(l))

\* Entry k: <<last timestep of epoch k, timesteps in epoch k, rows per timestep>>
EpochEntries(l) ==
    [k \in 1..Len(l) |->
        <<SumSeq([j \in 1..k |-> l[j][1]]), l[k][1], l[k][2]>>]

\* The table as plotprofiles receives it, with or without a leading <<0, 0, 0>>
MakeNzi(l, lead) == IF lead THEN <<<<0, 0, 0>>>> \o EpochEntries(l) ELSE EpochEntries(l)

HasLeadEntry(table) == Len(table) >= 1 /\ table[1] = <<0, 0, 0>>

\* Rows of the Profile Table that belong to the timesteps before s
RowsBefore(s) == SumSeq(Slice(steprows, 0, s - 1))

-----------------------------------------------------------------------------
(* plotprofiles: the row range of a timestep (lines 104-115) *)

ann(table, s) == sorted(Append([k \in 1..Len(table) |-> table[k][1]], s))

innOffByRight(table, s) == Cardinality({k \in 1..Len(table) : table[k][1] <= s})

inn(table, s) == index(ann(table, s), s)

nnzRowsOnly(table) == [k \in 1..Len(table) |-> table[k][3]]

nnz(table) == [k \in 1..Len(table) |-> table[k][2] * table[k][3]]

\* <<raised, ir0, ir1>>: nzi[inn, 2] raises IndexError when inn is past the table
ProfileRows(table, s) ==
    LET i == inn(table, s)
    IN  IF ~InRange(table, i) \/ ~InRange(table, i - 1)
        THEN <<"IndexError", 0, 0>>
        ELSE LET r0 == SumSeq(Slice(nnz(table), 0, i))
                       + (s - At(table, i - 1)[1] - 1) * At(table, i)[3]
             IN  <<"none", r0, r0 + At(table, i)[3] - 1>>

-----------------------------------------------------------------------------
(* The loop of plotprofiles over the selected timesteps *)

istart == timestep[1]
ilast == timestep[2]
istep == timestep[3]

Timesteps(nsteps) ==
    {t \in (0..nsteps) \X (1..nsteps) \X (1..MaxStride) : t[1] < t[2]}

NoCall == fn = "none" /\ argv = << >> /\ ret = << >>

NoCmd ==
    /\ args = << >> /\ args0 = << >> /\ plt = << >> /\ files = << >>
    /\ assigned = << >> /\ vi = 0

NoLoop ==
    /\ nzi = << >> /\ steprows = << >> /\ timestep = <<0, 0, 1>>
    /\ step = 0 /\ ir0 = 0 /\ ir1 = 0

InitResolver ==
    /\ \E l \in EpochLists, lead \in BOOLEAN :
          /\ steprows = RowsOfSteps(l)
          /\ nzi = MakeNzi(l, lead)
    /\ timestep \in Timesteps(Len(steprows))
    /\ step = 0
    /\ ir0 = 0
    /\ ir1 = 0
    /\ raised = "none"
    /\ pc = "start"
    /\ NoCall
    /\ NoCmd

NextStepValue == IF pc = "start" THEN istart + 1 ELSE step + istep

\* One iteration of `for step in range(istart + 1, ilast + 1, istep)`
LoopStep ==
    /\ pc \in {"start", "loop"}
    /\ NextStepValue < ilast + 1
    /\ LET res == ProfileRows(nzi, NextStepValue)
       IN  /\ step' = NextStepValue
           /\ raised' = res[1]
           /\ ir0' = res[2]
           /\ ir1' = res[3]
           /\ pc' = IF res[1] = "none" THEN "loop" ELSE "raised"
    /\ UNCHANGED <<nzi, steprows, timestep, callVars, cmdVars>>

LoopExit ==
    /\ pc \in {"start", "loop"}
    /\ NextStepValue >= ilast + 1
    /\ pc' = "done"
    /\ UNCHANGED <<nzi, steprows, timestep, step, ir0, ir1, raised, callVars, cmdVars>>

NextResolver == LoopStep \/ LoopExit

SpecResolver == InitResolver /\ [][NextResolver]_vars

-----------------------------------------------------------------------------
(* Calls of the numerical helpers: the arguments are drawn by the initial   *)
(* state, the call computes the returned value.                            *)

\* A call returns <<raised, value>>
Call(name, result) ==
    /\ pc = "call"
    /\ fn = name
    /\ raised' = result[1]
    /\ ret' = result[2]
    /\ pc' = IF result[1] = "none" THEN "returned" ELSE "raised"
    /\ UNCHANGED <<loopVars, fn, argv, cmdVars>>

InitCall(name, arguments) ==
    /\ fn = name
    /\ argv \in arguments
    /\ ret = << >>
    /\ raised = "none"
    /\ pc = "call"
    /\ NoLoop
    /\ NoCmd

Returned(name) == fn = name /\ pc = "returned"

-----------------------------------------------------------------------------
(* _calc_energy (lines 38-54).  A row of the Profile Table is a record of   *)
(* the columns the function reads: c0 (z), c1 (temperature), c60 and c63.   *)

zgridOf(table, r0, r1) == Append(Column(Slice(table, r0, r1), "c63"), QInt(1))

dzgOf(table, r0, r1) ==
    ElemSub(Column(Slice(table, r0 + 1, r1), "c0"),
            Column(Slice(table, r0, r1 - 1), "c0"))

qadvNoTopPad(table, r0, r1) ==
    <<QInt(0)>> \o Column(Slice(table, r0, r1 - 1), "c60")

qadvOf(table, r0, r1) ==
    Append(<<QInt(0)>> \o Column(Slice(table, r0, r1 - 1), "c60"), QInt(0))

qcond0Of(table, r0) == QDiv(QSub(QInt(1), At(table, r0).c1), At(table, r0).c0)

qtopOf(table, r1) == QDiv(At(table, r1).c1, QSub(QInt(1), At(table, r1).c0))

\* <<raised, <<qtot, qadv, qcond, zgrid>>>>
calc_energy(table, r0, r1) ==
    LET upper == Column(Slice(table, r0 + 1, r1), "c0")
        lower == Column(Slice(table, r0, r1 - 1), "c0")
        tlow == Column(Slice(table, r0, r1 - 1), "c1")
        tupp == Column(Slice(table, r0 + 1, r1), "c1")
    IN  IF ~CanCombine(upper, lower) \/ ~CanCombine(tlow, tupp)
        THEN <<"ValueError", << >>>>
        ELSE IF ~CanCombine(ElemSub(tlow, tupp), dzgOf(table, r0, r1))
        THEN <<"ValueError", << >>>>
        ELSE IF ~InRange(table, r0) \/ ~InRange(table, r1)
        THEN <<"IndexError", << >>>>
        ELSE IF QIsZero(At(table, r0).c0)
                \/ QIsZero(QSub(QInt(1), At(table, r1).c0))
        THEN <<"ZeroDivisionError", << >>>>
        ELSE LET zgrid == zgridOf(table, r0, r1)
                 qadv == qadvOf(table, r0, r1)
                 inner == ElemDiv(ElemSub(tlow, tupp), dzgOf(table, r0, r1))
                 qcond == Append(<<qcond0Of(table, r0)>> \o inner,
                                 qtopOf(table, r1))
             IN  IF ~CanCombine(qadv, qcond)
                 THEN <<"ValueError", << >>>>
                 ELSE <<"none", <<ElemAdd(qadv, qcond), qadv, qcond, zgrid>>>>

\* Rows of one timestep: z strictly inside (0, 1) and strictly increasing
GridZ == {Q(k, GridDen) : k \in 1..(GridDen - 1)}

TableRow ==
    [c0 : GridZ, c1 : {QInt(0), QInt(1)}, c60 : {QInt(-1), QInt(2)},
     c63 : {QInt(0), Q(1, 2)}]

\* the rows that may follow table t
RowsAbove(t) == {x \in TableRow : t = << >> \/ QLt(t[Len(t)].c0, x.c0)}

RECURSIVE TablesOfLen(_)
TablesOfLen(n) ==
    IF n = 0 THEN {<< >>}
    ELSE UNION {{Append(t, r) : r \in RowsAbove(t)} : t \in TablesOfLen(n - 1)}

ProfileTables == UNION {TablesOfLen(n) : n \in 2..MaxTableRows}

\* every row range of at least 2 rows: ir0 < ir1, both rows of the table
EnergyArgs ==
    {[data |-> t[1], ir0 |-> t[2], ir1 |-> t[3]] :
        t \in {u \in ProfileTables \X (0..(MaxTableRows - 1)) \X (0..(MaxTableRows - 1)) :
                  u[2] < u[3] /\ u[3] < Len(u[1])}}

InitEnergy == InitCall("_calc_energy", EnergyArgs)

CallEnergy == Call("_calc_energy", calc_energy(argv.data, argv.ir0, argv.ir1))

SpecEnergy == InitEnergy /\ [][CallEnergy]_vars

-----------------------------------------------------------------------------
(* _normprof (lines 14-20) *)

\* element-wise func**2 * rrr**2
SquareTimesSquare(func, rrr) ==
    [k \in 1..CombinedLen(func, rrr) |->
        QMul(QPow(Broadcast(func, CombinedLen(func, rrr))[k], 2),
             QPow(Broadcast(rrr, CombinedLen(func, rrr))[k], 2))]

trapzLeftRule(y, x) ==
    IF Len(x) < 2 THEN QInt(0)
    ELSE LET term(k) == QMul(QSub(x[k + 1], x[k]), y[k])
             partial[k \in 0..(Len(x) - 1)] ==
                 IF k = 0 THEN QInt(0) ELSE QAdd(partial[k - 1], term(k))
         IN  partial[Len(x) - 1]

\* itg.trapz(y, x): sum of (x[k+1] - x[k]) * (y[k+1] + y[k]) / 2
trapz(y, x) ==
    IF Len(x) < 2 THEN QInt(0)
    ELSE LET term(k) == QDiv(QMul(QSub(x[k + 1], x[k]), QAdd(y[k + 1], y[k])),
                             QInt(2))
             partial[k \in 0..(Len(x) - 1)] ==
                 IF k = 0 THEN QInt(0) ELSE QAdd(partial[k - 1], term(k))
         IN  partial[Len(x) - 1]

\* rrr[-1]**3 - rrr[0]**3
CubeSpan(rrr) == QSub(QPow(At(rrr, -1), 3), QPow(At(rrr, 0), 3))

\* <<raised, norm>>; rrr[-1] # rrr[0] is required of the caller
normprof(rrr, func) ==
    IF Len(rrr) = 0 THEN <<"IndexError", << >>>>
    ELSE IF ~CanCombine(func, rrr) \/ Len(SquareTimesSquare(func, rrr)) # Len(rrr)
    THEN <<"ValueError", << >>>>
    ELSE <<"none", QMul(QDiv(QInt(3), CubeSpan(rrr)),
                         trapz(SquareTimesSquare(func, rrr), rrr))>>

RadiusGrid == {Q(k, 2) : k \in 2..6}

ProfileValues == {QInt(-1), QInt(0), Q(1, 2), QInt(2)}

\* ascending arrays over a grid
RECURSIVE AscendingOfLen(_, _)
AscendingOfLen(grid, n) ==
    IF n = 0 THEN {<< >>}
    ELSE UNION {{Append(t, x) : x \in {g \in grid : t = << >> \/ QLe(t[Len(t)], g)}} :
                   t \in AscendingOfLen(grid, n - 1)}

RECURSIVE ArraysOfLen(_, _)
ArraysOfLen(values, n) ==
    IF n = 0 THEN {<< >>}
    ELSE {Append(t, x) : t \in ArraysOfLen(values, n - 1), x \in values}

\* the calls with at most `samples` radii
NormArgs(samples) ==
    UNION {{[rrr |-> r, func |-> f] :
               r \in {a \in AscendingOfLen(RadiusGrid, n) : a[1] # a[n]},
               f \in ArraysOfLen(ProfileValues, n)} : n \in 2..samples}

InitNorm == InitCall("_normprof", NormArgs(MaxSamples))

CallNorm == Call("_normprof", normprof(argv.rrr, argv.func))

SpecNorm == InitNorm /\ [][CallNorm]_vars

-----------------------------------------------------------------------------
(* _extrap (lines 23-35) *)

\* np.interp(x, xp, fp) at one position: constant outside [xp[0], xp[-1]],
\* linear between the two samples around x inside
interp(x, xp, fp) ==
    IF QLt(x, xp[1]) THEN fp[1]
    ELSE IF QLe(xp[Len(xp)], x) THEN fp[Len(xp)]
    ELSE LET j == CHOOSE k \in 1..(Len(xp) - 1) : QLe(xp[k], x) /\ QLt(x, xp[k + 1])
             slope == QDiv(QSub(fp[j + 1], fp[j]), QSub(xp[j + 1], xp[j]))
         IN  QAdd(QMul(slope, QSub(x, xp[j])), fp[j])

\* lines 29-31: the positions below xpoints[0]
ExtrapBelow(ypos, xpos, xpoints, ypoints) ==
    [k \in 1..Len(ypos) |->
        IF QLt(xpos[k], At(xpoints, 0))
        THEN QAdd(At(ypoints, 0),
                  QMul(QSub(xpos[k], At(xpoints, 0)),
                       QDiv(QSub(At(ypoints, 0), At(ypoints, 1)),
                            QSub(At(xpoints, 0), At(xpoints, 1)))))
        ELSE ypos[k]]

ExtrapAboveClamped(ypos, xpos, xpoints, ypoints) == ypos

\* lines 32-34: the positions above xpoints[-1]
ExtrapAbove(ypos, xpos, xpoints, ypoints) ==
    [k \in 1..Len(ypos) |->
        IF QLt(At(xpoints, -1), xpos[k])
        THEN QAdd(At(ypoints, -1),
                  QMul(QSub(xpos[k], At(xpoints, -1)),
                       QDiv(QSub(At(ypoints, -1), At(ypoints, -2)),
                            QSub(At(xpoints, -1), At(xpoints, -2)))))
        ELSE ypos[k]]

\* <<raised, ypos>>; xpoints strictly increasing is required of the caller
extrap(xpos, xpoints, ypoints) ==
    IF Len(xpoints) # Len(ypoints) THEN <<"ValueError", << >>>>
    ELSE IF Len(xpoints) < 2 THEN <<"IndexError", << >>>>
    ELSE LET ypos == [k \in 1..Len(xpos) |-> interp(xpos[k], xpoints, ypoints)]
         IN  <<"none", ExtrapAbove(ExtrapBelow(ypos, xpos, xpoints, ypoints),
                                   xpos, xpoints, ypoints)>>

SampleGrid == {QInt(0), QInt(1), QInt(2), QInt(4)}

SampleValues == {QInt(-1), QInt(0), QInt(2)}

TargetGrid == {QInt(-1), QInt(0), Q(1, 2), QInt(2), QInt(3), QInt(5)}

StrictlyIncreasing(a) == \A k \in 1..(Len(a) - 1) : QLt(a[k], a[k + 1])

\* the calls with at most `points` sample points and `targets` target positions
ExtrapArgs(points, targets) ==
    UNION {{[xpos |-> t, xpoints |-> x, ypoints |-> y] :
               t \in UNION {ArraysOfLen(TargetGrid, m) : m \in 1..targets},
               x \in {a \in AscendingOfLen(SampleGrid, n) : StrictlyIncreasing(a)},
               y \in ArraysOfLen(SampleValues, n)} : n \in 2..points}

InitExtrap == InitCall("_extrap", ExtrapArgs(MaxPoints, MaxTargets))

CallExtrap == Call("_extrap", extrap(argv.xpos, argv.xpoints, argv.ypoints))

SpecExtrap == InitExtrap /\ [][CallExtrap]_vars

-----------------------------------------------------------------------------
(* plotaveragedprofiles: the chunked average (lines 303-312).  data is the  *)
(* plotted column data[:, vartuple] of the Profile Table, tsteps the number *)
(* of rows of the timestep table.                                          *)

\* int(x / y) for x >= 0, y > 0
IntOfQuotient(x, y) == x \div y

\* chunks(mydata, nbz), nbz > 0
chunks(mydata, nbz) ==
    LET starts == range(0, Len(mydata), nbz)
    IN  [j \in 1..Len(starts) |-> Slice(mydata, starts[j], starts[j] + nbz)]

sumAxis0(arrays) ==
    [d \in 1..Len(arrays[1]) |->
        LET partial[j \in 0..Len(arrays)] ==
                IF j = 0 THEN QInt(0) ELSE QAdd(partial[j - 1], arrays[j][d])
        IN  partial[Len(arrays)]]

\* np.mean(arrays, axis=0) of arrays of one length
meanAxis0(arrays) ==
    [d \in 1..Len(arrays[1]) |->
        LET partial[j \in 0..Len(arrays)] ==
                IF j = 0 THEN QInt(0) ELSE QAdd(partial[j - 1], arrays[j][d])
        IN  QDiv(partial[Len(arrays)], QInt(Len(arrays)))]

\* <<raised, [nztot, donnee_chunk, donnee_averaged]>>
averagedprofiles(table, ntsteps) ==
    LET nztot == IntOfQuotient(Len(table), ntsteps)
    IN  IF nztot = 0 THEN <<"ValueError", << >>>>
        ELSE LET donnee_chunk == chunks(table, nztot)
             IN  IF \E j \in 1..Len(donnee_chunk) :
                        Len(donnee_chunk[j]) # Len(donnee_chunk[1])
                 THEN <<"ValueError", << >>>>
                 ELSE <<"none", [nztot |-> nztot,
                                 donnee_chunk |-> donnee_chunk,
                                 donnee_averaged |-> meanAxis0(donnee_chunk)]>>

ColumnValues == {QInt(1), QInt(4)}

\* layouts whose row count is a multiple of the number of timesteps
AverageLayouts ==
    {l \in UNION {[1..n -> 1..MaxAvgRows] : n \in 1..MaxAvgSteps} :
        SumSeq(l) % Len(l) = 0}

InitAverage ==
    /\ steprows \in AverageLayouts
    /\ fn = "plotaveragedprofiles"
    /\ \E col \in ArraysOfLen(ColumnValues, SumSeq(steprows)) :
          argv = [data |-> col, tsteps |-> Len(steprows)]
    /\ ret = << >>
    /\ raised = "none"
    /\ pc = "call"
    /\ nzi = << >> /\ timestep = <<0, 0, 1>> /\ step = 0 /\ ir0 = 0 /\ ir1 = 0
    /\ NoCmd

CallAverage ==
    Call("plotaveragedprofiles", averagedprofiles(argv.data, argv.tsteps))

SpecAverage == InitAverage /\ [][CallAverage]_vars

-----------------------------------------------------------------------------
(* rprof_cmd: the theoretical initial profile (lines 407-433).  Only the    *)
(* cube of a radius enters the formulas, so rpos and rsup are held as their *)
(* cubes rpos3 and rsup3; the parameters are drawn so that every power is   *)
(* an exact rational.                                                       *)

\* the integer r with r ** q = n (n a perfect q-th power)
IntRoot(n, q) == CHOOSE r \in 0..n : QPow(QInt(r), q) = QInt(n)

\* x ** e for rationals x >= 0 and e >= 0
QPowQ(x, e) ==
    LET y == QPow(x, e[1])
    IN  IF e[2] = 1 THEN y ELSE Q(IntRoot(y[1], e[2]), IntRoot(y[2], e[2]))

rmin3(par) == QPow(par.rcmb, 3)
rmax3(par) == QPow(QAdd(par.rcmb, QInt(1)), 3)
xi0s(par) == QMul(par.k_fe, par.fe_cont)
xired(par) == QDiv(par.fe_cont, par.fe_eut)

\* rsup ** 3
rsup3(par) ==
    QSub(rmax3(par),
         QMul(QPowQ(xired(par), QDiv(QInt(1), QSub(QInt(1), par.k_fe))),
              QSub(rmax3(par), rmin3(par))))

\* lines 429-430 at a radius of cube r3
PowerLaw(par, r3) ==
    QMul(xi0s(par),
         QPowQ(QDiv(QSub(rmax3(par), rmin3(par)), QSub(rmax3(par), r3)),
               QSub(QInt(1), par.k_fe)))

initprofInclusive(par, r3) ==
    IF QLe(r3, rsup3(par)) THEN <<"none", PowerLaw(par, r3)>>
    ELSE <<"none", par.fe_eut>>

\* <<raised, value>>
initprof(par, r3) ==
    IF QLt(r3, rsup3(par)) THEN <<"none", PowerLaw(par, r3)>>
    ELSE <<"none", par.fe_eut>>

\* k_fe = 1 - 1/m: the exponents 1 - k_fe = 1/m and 1 / (1 - k_fe) = m
PartitionCoefficients == {Q(m - 1, m) : m \in 2..MaxRootDegree}

TheoParams ==
    {[rcmb |-> c, fe_eut |-> e, k_fe |-> k, fe_cont |-> QMul(x, e)] :
        c \in {QInt(0), QInt(1)}, e \in {Q(1, 2), QInt(1)},
        k \in PartitionCoefficients, x \in {Q(1, 3), Q(1, 2), Q(2, 3), QInt(1)}}

\* radii at which (rmax^3 - rmin^3) / (rmax^3 - r^3) is t ** m, and rmax
TheoRadii(par) ==
    LET m == QDiv(QInt(1), QSub(QInt(1), par.k_fe))[1]
    IN  {QSub(rmax3(par), QDiv(QSub(rmax3(par), rmin3(par)), QPow(t, m))) :
            t \in {QInt(1), Q(3, 2), QInt(2), QInt(3), QDiv(QInt(1), xired(par))}}
        \cup {rmax3(par)}

InitTheo ==
    /\ fn = "initprof"
    /\ \E par \in TheoParams : \E r3 \in TheoRadii(par) :
          argv = [par |-> par, rpos3 |-> r3]
    /\ ret = << >>
    /\ raised = "none"
    /\ pc = "call"
    /\ NoLoop
    /\ NoCmd

CallTheo == Call("initprof", initprof(argv.par, argv.rpos3))

SpecTheo == InitTheo /\ [][CallTheo]_vars

-----------------------------------------------------------------------------
(* Strings: a name is the sequence of its words, which Python joins with a  *)
(* space.                                                                   *)

RECURSIVE join(_, _)
join(sep, words) ==
    IF words = << >> THEN ""
    ELSE IF Len(words) = 1 THEN words[1]
    ELSE words[1] \o sep \o join(sep, Tail(words))

\* name.replace(' ', new)
replace(words, new) == join(new, words)

Digit(d) ==
    CASE d = 0 -> "0" [] d = 1 -> "1" [] d = 2 -> "2" [] d = 3 -> "3"
      [] d = 4 -> "4" [] d = 5 -> "5" [] d = 6 -> "6" [] d = 7 -> "7"
      [] d = 8 -> "8" [] d = 9 -> "9"

\* str(n) of an int
RECURSIVE str(_)
str(n) ==
    IF n < 0 THEN "-" \o str(-n)
    ELSE IF n < 10 THEN Digit(n)
    ELSE str(n \div 10) \o Digit(n % 10)

-----------------------------------------------------------------------------
(* pyplot, as rprof.py uses it: the figures created so far, and the open    *)
(* ones in activation order (the last one is the current figure).           *)

NoFigures == [figs |-> << >>, open |-> << >>]

\* plt.subplots(): a new figure, which becomes the current one
subplots(p, owner) ==
    [figs |-> Append(p.figs, [owner |-> owner, saved |-> 0, closed |-> FALSE]),
     open |-> Append(p.open, Len(p.figs) + 1)]

\* the figure a pyplot call acts on; pyplot opens one when none is open
gcf(p) == IF p.open = << >> THEN subplots(p, "pyplot") ELSE p

current(p) == p.open[Len(p.open)]

\* plt.savefig(name): saves the current figure
savefig(p) == LET q == gcf(p) IN [q EXCEPT !.figs[current(q)].saved = @ + 1]

\* plt.close(fig)
close(p, fig) ==
    [figs |-> [p.figs EXCEPT ![fig].closed = TRUE],
     open |-> SelectSeq(p.open, LAMBDA f : f # fig)]

PdfFile(name, p) == [name |-> name, fig |-> current(gcf(p)), lines |-> 0]

-----------------------------------------------------------------------------
(* plotprofiles and plotaveragedprofiles as rprof_cmd sees them: the figure *)
(* they create, the file they save, the values they return, the exception   *)
(* they raise.  tsteps has MaxCmdSteps rows and every selected timestep has *)
(* profiles of at least three rows.                                         *)

timenameLastStep(ts) == str(ts[1]) \o "_" \o str(ts[2]) \o "_" \o str(ts[3])

\* line 91
timename(ts) == str(ts[1]) \o "_" \o str(ts[2] - 1) \o "_" \o str(ts[3])

\* lines 231-246
savename(quant, ts) ==
    IF quant = <<"Grid">> THEN "Grid" \o timename(ts) \o ".pdf"
    ELSE IF quant = <<"Grid", "km">> THEN "Gridkm" \o timename(ts) \o ".pdf"
    ELSE replace(quant, "_") \o timename(ts) \o ".pdf"

\* line 384
averagename(quant) == "fig_" \o "average" \o replace(quant, "_") \o ".pdf"

\* the number of rows of tsteps[a:b:s]
SliceLen(n, a, b, s) == Len(range(SliceBound(n, a), SliceBound(n, b), s))

\* the steps of `for step in range(istart + 1, ilast + 1, istep)`
Selected(ts) == range(ts[1] + 1, ts[2] + 1, ts[3])

RECURSIVE max(_)
max(seq) ==
    IF Len(seq) = 1 THEN seq[1]
    ELSE LET m == max(Tail(seq)) IN IF seq[1] >= m THEN seq[1] ELSE m

Result(p, fl, exc, out) == [plt |-> p, files |-> fl, raised |-> exc, out |-> out]

\* lines 250-259: concdif has one entry per selected step and imin is its
\* argmin; semilogy(x, y) raises when x and y differ in length
\* lines 169-176: the loop appends one norm per selected step; an entry stands
\* for the step whose profile produced it
difSeries(ts) == Selected(ts)

\* line 252: the number of rows of tsteps[0:ilast:istep, 2]
concentrationTimes(ts) == SliceLen(MaxCmdSteps, 0, ts[2], ts[3])

\* lines 261, 270: the number of rows of tsteps[istart:ilast:istep, 2]
temperatureTimes(ts) == SliceLen(MaxCmdSteps, ts[1], ts[2], ts[3])

concentrationSeries(p, fl, ts, imin) ==
    LET n == Len(difSeries(ts))
    IN  IF concentrationTimes(ts) # n
        THEN Result(p, fl, "ValueError", << >>)
        ELSE IF ~(imin * ts[3] < MaxCmdSteps)
        THEN Result(p, fl, "IndexError", << >>)
        ELSE Result(gcf(p), fl, "none",
                    <<imin * ts[3], "concdif[iminc] / concdif[0]", imin, timename(ts)>>)

\* lines 273-275: math.log(wmax[iwm - 3] / wmax[0]) / tsteps[iwm - 3, 2]
sigma(wmax) ==
    LET iwm == index(wmax, max(wmax))
    IN  IF ~InRange(wmax, iwm - 3) THEN "IndexError"
        ELSE IF At(wmax, 0) # 0 /\ At(wmax, iwm - 3) = 0 THEN "ValueError"
        ELSE IF ~(-MaxCmdSteps <= iwm - 3) THEN "IndexError"
        ELSE "none"

\* lines 260-282: tempdif and wmax have one entry per selected step
temperatureSeries(p, fl, ts, imin, wmax) ==
    LET n == Len(difSeries(ts))
        iwm == index(wmax, max(wmax))
    IN  IF temperatureTimes(ts) # n
        THEN Result(p, fl, "ValueError", << >>)
        ELSE IF ~(imin * ts[3] < MaxCmdSteps)
        THEN Result(p, fl, "IndexError", << >>)
        ELSE IF sigma(wmax) # "none"
        THEN Result(gcf(p), fl, sigma(wmax), << >>)
        ELSE Result(gcf(gcf(p)), fl, "none",
                    <<imin * ts[3], "tempdif[imint] / tempdif[0]", iwm,
                      max(wmax), imin, "sigma", timename(ts)>>)

\* lines 64-283
plotprofiles(p, fl, quant, a, ts, imin, wmax) ==
    LET p1 == subplots(p, join(" ", quant))
        fig == Len(p1.figs)
        fl1 == Append(fl, PdfFile(savename(quant, ts), p1))
        p2 == close(savefig(p1), fig)
    IN  IF ~a.plot_difference THEN Result(p2, fl1, "none", << >>)
        ELSE IF quant = <<"Concentration">>
        THEN concentrationSeries(p2, fl1, ts, imin)
        ELSE IF quant = <<"Temperature">>
        THEN temperatureSeries(p2, fl1, ts, imin, wmax)
        ELSE Result(p2, fl1, "none", << >>)

\* lines 286-387
plotaveragedprofiles(p, fl, quant) ==
    LET p1 == subplots(p, "average " \o join(" ", quant))
        fig == Len(p1.figs)
        fl1 == Append(fl, PdfFile(averagename(quant), p1))
    IN  Result(close(savefig(p1), fig), fl1, "none", << >>)

-----------------------------------------------------------------------------
(* rprof_cmd (lines 390-501) *)

Flags ==
    {"plot_conctheo", "plot_temperature", "plot_concentration",
     "plot_difference", "plot_velocity", "plot_viscosity", "plot_grid",
     "plot_grid_units", "plot_advection", "plot_energy", "spherical"}

\* constants.RPROF_VAR_LIST, as rprof_cmd reads it: the name of a variable and
\* the option that enables it (the table itself is in stagpy/constants.py)
RPROF_VAR_LIST(var) ==
    CASE var = "t" -> [name |-> <<"Temperature">>, arg |-> "plot_temperature"]
      [] var = "v" -> [name |-> <<"Vertical", "velocity">>, arg |-> "plot_velocity"]
      [] var = "u" -> [name |-> <<"Horizontal", "velocity">>, arg |-> "plot_velocity"]
      [] var = "n" -> [name |-> <<"Viscosity">>, arg |-> "plot_viscosity"]
      [] var = "c" -> [name |-> <<"Concentration">>, arg |-> "plot_concentration"]

\* misc.get_arg
get_arg(a, name) == a[name]

\* binding local names: the new binding replaces the old one
Bind(locals, new) == new @@ locals

\* args.timestep: the first selected step is istart + 1, the last one at most
\* the last timestep of the file
CmdStarts == {0, 1}
CmdStrides == {1, 2}
CmdTimesteps ==
    {<<a, b, s>> : a \in CmdStarts, b \in 1..MaxCmdSteps, s \in CmdStrides}

InitCmd ==
    /\ args \in [Flags -> BOOLEAN]
    /\ args0 = args
    /\ timestep \in {ts \in CmdTimesteps : ts[1] < ts[2]}
    /\ plt = NoFigures
    /\ files = << >>
    /\ assigned = << >>
    /\ vi = 0
    /\ raised = "none"
    /\ pc = "rprof_cmd"
    /\ nzi = << >> /\ steprows = << >> /\ step = 0 /\ ir0 = 0 /\ ir1 = 0
    /\ NoCall

\* what a step of rprof_cmd leaves alone
CmdFrame == UNCHANGED <<nzi, steprows, timestep, step, ir0, ir1, fn, argv, args0>>

\* the state after a call: its effects, then either the bindings made from
\* its result and the next program point, or the exception
AfterCall(res, bound, nextpc, nextvi) ==
    /\ plt' = res.plt
    /\ files' = res.files
    /\ ret' = res.out
    /\ raised' = res.raised
    /\ IF res.raised = "none"
       THEN assigned' = Bind(assigned, bound) /\ pc' = nextpc /\ vi' = nextvi
       ELSE pc' = "raised" /\ UNCHANGED <<assigned, vi>>

Skip(nextpc, nextvi) ==
    /\ pc' = nextpc
    /\ vi' = nextvi
    /\ UNCHANGED <<plt, files, ret, raised, assigned>>

\* lines 392-436
Setup ==
    /\ pc = "rprof_cmd"
    /\ LET a == IF ~(args.plot_conctheo /\ args.plot_temperature
                     /\ args.plot_concentration)
                THEN [args EXCEPT !.plot_difference = FALSE]
                ELSE args
           p == IF a.plot_difference THEN subplots(plt, "figd") ELSE plt
           l1 == IF a.plot_difference
                 THEN Bind(assigned, [figd |-> Len(p.figs), ra0 |-> "ra0"])
                 ELSE assigned
           l2 == Bind(l1, [rcmb |-> "rcmb"])
           l3 == IF a.plot_conctheo THEN Bind(l2, [k_fe |-> "k_fe"]) ELSE l2
       IN  /\ args' = a
           /\ plt' = p
           /\ assigned' = Bind(l3, [tsteps |-> MaxCmdSteps])
    /\ pc' = "profiles"
    /\ vi' = 1
    /\ UNCHANGED <<files, ret, raised>>
    /\ CmdFrame

\* x, y, ... = out
Unpack(res, n) ==
    IF res.raised = "none" /\ Len(res.out) # n
    THEN [res EXCEPT !.raised = "ValueError"]
    ELSE res

\* lines 438-452: one iteration of `for var in 'tvunc'`
ProfilesStep ==
    /\ pc = "profiles"
    /\ LET var == <<"t", "v", "u", "n", "c">>[vi]
           meta == RPROF_VAR_LIST(var)
           n == Len(Selected(timestep))
           series == args.plot_difference /\ var \in {"t", "c"}
           nextpc == IF vi < 5 THEN "profiles" ELSE "averages"
           nextvi == IF vi < 5 THEN vi + 1 ELSE 1
       IN  IF ~get_arg(args, meta.arg)
           THEN Skip(nextpc, nextvi)
           ELSE \E imin \in (IF series THEN 0..(n - 1) ELSE {0}) :
                \E wmax \in (IF series /\ var = "t" THEN ArraysOfLen({0, 1, 2}, n)
                             ELSE {<< >>}) :
                   LET out == plotprofiles(plt, files, meta.name, args,
                                           timestep, imin, wmax)
                   IN  IF var = "t" /\ args.plot_difference
                       THEN LET res == Unpack(out, 7)
                            IN  AfterCall(res,
                                    [imint |-> res.out[5], sigma |-> res.out[6],
                                     timename |-> res.out[7]], nextpc, nextvi)
                       ELSE IF var = "c" /\ args.plot_difference
                       THEN LET res == Unpack(out, 4)
                            IN  AfterCall(res,
                                    [iminc |-> res.out[3], timename |-> res.out[4]],
                                    nextpc, nextvi)
                       ELSE AfterCall(out, << >>, nextpc, nextvi)
    /\ UNCHANGED args
    /\ CmdFrame

\* lines 455-464: one iteration of `for var in 'tvun'`
AveragesStep ==
    /\ pc = "averages"
    /\ LET meta == RPROF_VAR_LIST(<<"t", "v", "u", "n">>[vi])
           nextpc == IF vi < 4 THEN "averages" ELSE "difference"
           nextvi == IF vi < 4 THEN vi + 1 ELSE 0
       IN  IF ~get_arg(args, meta.arg)
           THEN Skip(nextpc, nextvi)
           ELSE AfterCall(plotaveragedprofiles(plt, files, meta.name), << >>,
                          nextpc, nextvi)
    /\ UNCHANGED args
    /\ CmdFrame

\* a name that is read: a NameError when it was never bound
Bound(names) == names \subseteq DOMAIN assigned

\* lines 468-477: the figure and the file of the difference series
differenceOutputs ==
    LET p1 == gcf(plt)
    IN  IF ~Bound({"timename"}) THEN Result(p1, files, "NameError", << >>)
        ELSE
        LET name == "Difference_to_overturned" \o assigned.timename \o ".pdf"
            fl1 == Append(files, PdfFile(name, p1))
            p2 == savefig(p1)
        IN  IF ~Bound({"figd"}) THEN Result(p2, fl1, "NameError", << >>)
            ELSE
            LET p3 == close(p2, assigned.figd)
                head == [name |-> "statmin.dat", fig |-> 0, lines |-> 1]
                full == [name |-> "statmin.dat", fig |-> 0, lines |-> 2]
            IN  IF ~Bound({"rcmb", "k_fe", "ra0", "tsteps", "imint", "sigma", "iminc"})
                THEN Result(p3, Append(fl1, head), "NameError", << >>)
                ELSE IF ~(assigned.imint < assigned.tsteps
                          /\ assigned.iminc < assigned.tsteps)
                THEN Result(p3, Append(fl1, head), "IndexError", << >>)
                ELSE Result(p3, Append(fl1, full), "none", ret)

\* lines 466-477
DifferenceStep ==
    /\ pc = "difference"
    /\ IF ~args.plot_difference
       THEN Skip("grid", 0)
       ELSE AfterCall(differenceOutputs, << >>, "grid", 0)
    /\ UNCHANGED args
    /\ CmdFrame

PlotIf(enabled, quant, nextpc) ==
    IF ~enabled
    THEN Skip(nextpc, 0)
    ELSE AfterCall(plotprofiles(plt, files, quant, args, timestep, 0, << >>),
                   << >>, nextpc, 0)

\* lines 480-482
GridStep ==
    /\ pc = "grid"
    /\ PlotIf(args.plot_grid, <<"Grid">>, "grid_units")
    /\ UNCHANGED args
    /\ CmdFrame

\* lines 484-486
GridUnitsStep ==
    /\ pc = "grid_units"
    /\ PlotIf(args.plot_grid_units, <<"Grid", "km">>, "advection")
    /\ UNCHANGED args
    /\ CmdFrame

\* lines 490-497
AdvectionStep ==
    /\ pc = "advection"
    /\ IF ~args.plot_advection
       THEN Skip("energy", 0)
       ELSE LET first == plotprofiles(plt, files,
                             <<"Advection", "per", "unit", "surface">>,
                             args, timestep, 0, << >>)
            IN  IF args.spherical /\ first.raised = "none"
                THEN AfterCall(plotprofiles(first.plt, first.files,
                                   <<"Total", "scaled", "advection">>,
                                   args, timestep, 0, << >>), << >>, "energy", 0)
                ELSE AfterCall(first, << >>, "energy", 0)
    /\ UNCHANGED args
    /\ CmdFrame

\* lines 498-501
EnergyStep ==
    /\ pc = "energy"
    /\ PlotIf(args.plot_energy, <<"Energy">>, "returned")
    /\ UNCHANGED args
    /\ CmdFrame

NextCmd ==
    \/ Setup
    \/ ProfilesStep
    \/ AveragesStep
    \/ DifferenceStep
    \/ GridStep
    \/ GridUnitsStep
    \/ AdvectionStep
    \/ EnergyStep

SpecCmd == InitCmd /\ [][NextCmd]_vars

-----------------------------------------------------------------------------
(* Resolution-Change Table, constant resolution *)

\* C1 as stated: with a single entry in nzi, every selected timestep gets
\* ir0 = (step - 1) * nzi[0, 2] and no index error is raised.
C1_SingleEntryStartRow ==
    (Len(nzi) = 1 /\ pc \in {"loop", "raised"}) =>
        (raised = "none" /\ ir0 = (step - 1) * nzi[1][3])

\* C1 amended: when nzi is the zero entry <<0, 0, 0>> followed by the single
\* entry of a constant-resolution run, every selected timestep gets
\* ir0 = (step - 1) * rows-per-step and no index error is raised.
C1_ConstantResolutionStartRow ==
    (Len(nzi) = 2 /\ HasLeadEntry(nzi) /\ pc \in {"loop", "raised"}) =>
        (raised = "none" /\ ir0 = (step - 1) * nzi[2][3])

C1_Witness ==
    /\ Len(nzi) = 2 /\ HasLeadEntry(nzi) /\ pc = "loop"
    /\ step = nzi[2][1] /\ step > 1 /\ ir0 = (step - 1) * nzi[2][3] /\ ir0 > 0

\* C2 as stated: for every table sorted by timestep and every selected
\* timestep, ir0 is the number of rows of the earlier timesteps and ir1 is the
\* last row before the next timestep's rows.
C2_StartRowIsRowsBefore ==
    pc \in {"loop", "raised"} =>
        /\ raised = "none"
        /\ ir0 = RowsBefore(step)
        /\ ir1 + 1 = RowsBefore(step + 1)

\* C2 amended: the same, for every table sorted by timestep that starts with
\* the zero entry <<0, 0, 0>>.
C2_LeadEntryStartRowIsRowsBefore ==
    (HasLeadEntry(nzi) /\ pc \in {"loop", "raised"}) =>
        /\ raised = "none"
        /\ ir0 = RowsBefore(step)
        /\ ir1 + 1 = RowsBefore(step + 1)

\* a timestep that is the boundary of the second of three epochs
C2_Witness ==
    /\ HasLeadEntry(nzi) /\ Len(nzi) = 4 /\ pc = "loop"
    /\ step = nzi[3][1] /\ nzi[3][2] > 1
    /\ ir0 = RowsBefore(step) /\ ir0 > 0

-----------------------------------------------------------------------------
(* Energy balance *)

qtot == ret[1]
qadv == ret[2]
qcond == ret[3]
zgrid == ret[4]

\* C3: for every row range (ir0, ir1) of at least 2 rows _calc_energy returns
\* four arrays of one length; qtot[i] = qadv[i] + qcond[i] at every i; qadv
\* is 0 at both ends; qcond starts with the bottom correction of row ir0 and
\* ends with the top correction of row ir1.
C3_EnergyBalance ==
    (fn = "_calc_energy" /\ pc # "call") =>
        /\ raised = "none"
        /\ Len(qtot) = argv.ir1 - argv.ir0 + 1
        /\ Len(qadv) = Len(qtot) /\ Len(qcond) = Len(qtot) /\ Len(zgrid) = Len(qtot)
        /\ \A i \in 1..Len(qtot) : qtot[i] = QAdd(qadv[i], qcond[i])
        /\ qadv[1] = QInt(0) /\ qadv[Len(qadv)] = QInt(0)
        /\ QMul(qcond[1], argv.data[argv.ir0 + 1].c0)
               = QSub(QInt(1), argv.data[argv.ir0 + 1].c1)
        /\ QMul(qcond[Len(qcond)], QSub(QInt(1), argv.data[argv.ir1 + 1].c0))
               = argv.data[argv.ir1 + 1].c1

\* a range of 3 rows with a non-zero advective flux inside and non-zero
\* corrections at both ends
C3_Witness ==
    /\ Returned("_calc_energy")
    /\ argv.ir1 = argv.ir0 + 2
    /\ Len(qtot) = 3
    /\ ~QIsZero(qadv[2]) /\ ~QIsZero(qcond[1]) /\ ~QIsZero(qcond[3])
    /\ qtot[2] # qadv[2]

-----------------------------------------------------------------------------
(* Volumetric norm *)

IsConstant(a) == \A k \in 1..Len(a) : a[k] = a[1]

\* sum of the cubes of the sample spacings
RECURSIVE SpacingCubes(_)
SpacingCubes(r) ==
    IF Len(r) < 2 THEN QInt(0)
    ELSE QAdd(QPow(QSub(r[2], r[1]), 3), SpacingCubes(Tail(r)))

\* C4 as stated: for a constant profile c over ascending radii with
\* rrr[-1] # rrr[0], _normprof returns c^2 whatever the radii and the number
\* of samples.
C4_ConstantNormIsSquare ==
    (Returned("_normprof") /\ IsConstant(argv.func)) =>
        ret = QPow(argv.func[1], 2)

\* C4 amended: for a constant profile c, _normprof returns
\* c^2 * (1 + S / (2 * (rrr[-1]^3 - rrr[0]^3))) with S the sum of the cubes of
\* the sample spacings: at least c^2, and c^2 only when c = 0.
C4_ConstantNormTrapezoid ==
    (fn = "_normprof" /\ pc # "call" /\ IsConstant(argv.func)) =>
        /\ raised = "none"
        /\ QMul(ret, QMul(QInt(2), CubeSpan(argv.rrr)))
               = QMul(QPow(argv.func[1], 2),
                      QAdd(QMul(QInt(2), CubeSpan(argv.rrr)), SpacingCubes(argv.rrr)))
        /\ QLe(QPow(argv.func[1], 2), ret)
        /\ (ret = QPow(argv.func[1], 2)) <=> QIsZero(argv.func[1])

C4_Witness ==
    /\ Returned("_normprof") /\ IsConstant(argv.func)
    /\ Len(argv.rrr) = 3 /\ argv.func[1] = QInt(2)
    /\ QLt(QInt(4), ret)

-----------------------------------------------------------------------------
(* Boundary extrapolator *)

\* y lies on the line through (x1, y1) and (x2, y2) at x
OnLine(x, y, x1, y1, x2, y2) ==
    QMul(QSub(y, y1), QSub(x2, x1)) = QMul(QSub(x, x1), QSub(y2, y1))

\* C5: for strictly increasing xpoints (at least 2) _extrap returns an array as
\* long as xpos; a position inside [xpoints[0], xpoints[-1]] gets the piecewise
\* linear interpolation, a position below gets the line through the first two
\* samples, a position above the line through the last two samples.
C5_ExtrapLinearLaw ==
    (fn = "_extrap" /\ pc # "call") =>
        /\ raised = "none"
        /\ Len(ret) = Len(argv.xpos)
        /\ \A k \in 1..Len(argv.xpos) :
              LET x == argv.xpos[k]
                  xp == argv.xpoints
                  yp == argv.ypoints
                  n == Len(xp)
              IN  /\ QLt(x, xp[1]) => OnLine(x, ret[k], xp[1], yp[1], xp[2], yp[2])
                  /\ QLt(xp[n], x) =>
                         OnLine(x, ret[k], xp[n - 1], yp[n - 1], xp[n], yp[n])
                  /\ (QLe(xp[1], x) /\ QLe(x, xp[n])) =>
                         \E j \in 1..(n - 1) :
                             /\ QLe(xp[j], x) /\ QLe(x, xp[j + 1])
                             /\ OnLine(x, ret[k], xp[j], yp[j], xp[j + 1], yp[j + 1])

\* one position below and one above three samples whose two slopes differ
C5_Witness ==
    /\ Returned("_extrap")
    /\ Len(argv.xpoints) = 3 /\ Len(argv.xpos) = 2
    /\ QLt(argv.xpos[1], argv.xpoints[1]) /\ QLt(argv.xpoints[3], argv.xpos[2])
    /\ ret[1] # argv.ypoints[1] /\ ret[2] # argv.ypoints[3]
    /\ ~OnLine(argv.xpoints[3], argv.ypoints[3], argv.xpoints[1], argv.ypoints[1],
               argv.xpoints[2], argv.ypoints[2])

-----------------------------------------------------------------------------
(* Time-averaged aggregator *)

\* the rows of timestep j in the Profile Table
RowsOfStep(table, j) == Slice(table, RowsBefore(j), RowsBefore(j + 1))

ConstantResolution == \A j \in 1..Len(steprows) : steprows[j] = steprows[1]

IdenticalSteps ==
    \A j \in 1..Len(steprows) : RowsOfStep(argv.data, j) = RowsOfStep(argv.data, 1)

RECURSIVE QSumSeq(_)
QSumSeq(a) == IF a = << >> THEN QInt(0) ELSE QAdd(Head(a), QSumSeq(Tail(a)))

\* exactly T chunks of one size, averaged element by element
EqualChunksAveraged ==
    /\ raised = "none"
    /\ Len(ret.donnee_chunk) = argv.tsteps
    /\ \A j \in 1..Len(ret.donnee_chunk) :
          Len(ret.donnee_chunk[j]) * argv.tsteps = Len(argv.data)
    /\ Len(ret.donnee_averaged) * argv.tsteps = Len(argv.data)
    /\ \A d \in 1..Len(ret.donnee_averaged) :
          QMul(ret.donnee_averaged[d], QInt(argv.tsteps))
              = QSumSeq([j \in 1..Len(ret.donnee_chunk) |-> ret.donnee_chunk[j][d]])

ChunksAreTimesteps ==
    /\ Len(ret.donnee_chunk) = Len(steprows)
    /\ \A j \in 1..Len(ret.donnee_chunk) :
          ret.donnee_chunk[j] = RowsOfStep(argv.data, j)

\* C6 as stated: when the row count is a multiple of the number of timesteps T,
\* the rows are split into T chunks of equal size, chunk j holds the rows of
\* timestep j, the chunks are averaged per depth level, and identical
\* timesteps give that profile back.
C6_ChunksPerTimestep ==
    (fn = "plotaveragedprofiles" /\ pc # "call") =>
        /\ EqualChunksAveraged
        /\ ChunksAreTimesteps
        /\ IdenticalSteps => ret.donnee_averaged = RowsOfStep(argv.data, 1)

\* C6 amended: when the row count is a multiple of T the rows are split into T
\* chunks of equal size that are averaged element by element; chunk j holds
\* the rows of timestep j when every timestep has the same number of rows;
\* identical timesteps give that profile back.
C6_ChunksPerTimestepConstantResolution ==
    (fn = "plotaveragedprofiles" /\ pc # "call") =>
        /\ EqualChunksAveraged
        /\ ConstantResolution => ChunksAreTimesteps
        /\ IdenticalSteps => ret.donnee_averaged = RowsOfStep(argv.data, 1)

\* two timesteps of two rows each with different profiles
C6_Witness ==
    /\ Returned("plotaveragedprofiles")
    /\ steprows = <<2, 2>>
    /\ ret.donnee_chunk = <<RowsOfStep(argv.data, 1), RowsOfStep(argv.data, 2)>>
    /\ ret.donnee_averaged[1] = Q(5, 2)
    /\ ret.donnee_averaged[2] = QInt(4)

-----------------------------------------------------------------------------
(* Theoretical initial profile *)

\* the two branches of initprof, the power law stated without a root:
\* value ** m * (rmax^3 - r^3) = xi0s ** m * (rmax^3 - rmin^3), m = 1 / (1 - k_fe)
TheoBranches ==
    LET par == argv.par
        m == QDiv(QInt(1), QSub(QInt(1), par.k_fe))[1]
    IN  /\ raised = "none"
        /\ QLe(rsup3(par), argv.rpos3) => ret = par.fe_eut
        /\ QLt(argv.rpos3, rsup3(par)) =>
               QMul(QPow(ret, m), QSub(rmax3(par), argv.rpos3))
                   = QMul(QPow(xi0s(par), m), QSub(rmax3(par), rmin3(par)))

\* C7 as stated: initprof returns xieut for r >= r_sup and the power law for
\* r < r_sup, and the power law evaluated at r_sup equals xieut.
C7_ContinuousAtRsup ==
    (fn = "initprof" /\ pc # "call") =>
        /\ TheoBranches
        /\ PowerLaw(argv.par, rsup3(argv.par)) = argv.par.fe_eut

\* C7 amended: initprof returns xieut for r >= r_sup and the power law for
\* r < r_sup; the power law evaluated at r_sup equals k_fe * xieut, so the
\* profile steps from k_fe * xieut up to xieut at r_sup.
C7_StepAtRsup ==
    (fn = "initprof" /\ pc # "call") =>
        /\ TheoBranches
        /\ PowerLaw(argv.par, rsup3(argv.par))
               = QMul(argv.par.k_fe, argv.par.fe_eut)
        /\ QLt(PowerLaw(argv.par, rsup3(argv.par)), argv.par.fe_eut)

\* a call at r = r_sup, strictly inside the shell, with k_fe = 2/3
C7_Witness ==
    /\ Returned("initprof")
    /\ argv.par.k_fe = Q(2, 3)
    /\ argv.rpos3 = rsup3(argv.par)
    /\ QLt(rmin3(argv.par), argv.rpos3) /\ QLt(argv.rpos3, rmax3(argv.par))
    /\ ret = argv.par.fe_eut
    /\ PowerLaw(argv.par, argv.rpos3) = QMul(Q(2, 3), argv.par.fe_eut)

-----------------------------------------------------------------------------
(* Output files of rprof_cmd *)

\* the quantities plotprofiles is called with
PerTimestepQuantities ==
    {RPROF_VAR_LIST(var).name : var \in {"t", "v", "u", "n", "c"}}
    \cup {<<"Grid">>, <<"Grid", "km">>, <<"Advection", "per", "unit", "surface">>,
          <<"Total", "scaled", "advection">>, <<"Energy">>}

AveragedQuantities == {RPROF_VAR_LIST(var).name : var \in {"t", "v", "u", "n"}}

\* the files saved from a figure that the plot of `owner` created
FilesOf(owner) ==
    {k \in 1..Len(files) :
        files[k].fig # 0 /\ plt.figs[files[k].fig].owner = owner}

RangeText == str(istart) \o "_" \o str(ilast - 1) \o "_" \o str(istep)

AveragedNames ==
    \A q \in AveragedQuantities : \A k \in FilesOf("average " \o join(" ", q)) :
        files[k].name = "fig_average" \o join("_", q) \o ".pdf"

\* C8 as stated: the per-timestep plot of quantity Q is saved as Q with its
\* spaces replaced by underscores, then "_", then istart_(ilast-1)_istep, then
\* ".pdf"; the averaged plot of Q is saved as fig_average<Q with underscores>.pdf
C8_NameWithSeparator ==
    /\ \A q \in PerTimestepQuantities : \A k \in FilesOf(join(" ", q)) :
          files[k].name = join("_", q) \o "_" \o RangeText \o ".pdf"
    /\ AveragedNames

\* C8 amended: the per-timestep plot of quantity Q is saved as Q with its spaces
\* replaced by underscores ("Gridkm" for Grid km), directly followed by
\* istart_(ilast-1)_istep and ".pdf", with no separator in between; the averaged
\* plot of Q is saved as fig_average<Q with underscores>.pdf
C8_NameWithoutSeparator ==
    /\ \A q \in PerTimestepQuantities : \A k \in FilesOf(join(" ", q)) :
          files[k].name =
              (IF q = <<"Grid", "km">> THEN "Gridkm" ELSE join("_", q))
              \o RangeText \o ".pdf"
    /\ AveragedNames

\* a run over timesteps (0, 3, 1) that has saved Temperature0_2_1.pdf,
\* fig_averageVertical_velocity.pdf and Gridkm0_2_1.pdf
C8_Witness ==
    /\ pc = "returned"
    /\ timestep = <<0, 3, 1>>
    /\ \E k \in FilesOf("Temperature") : files[k].name = "Temperature0_2_1.pdf"
    /\ \E k \in FilesOf("average Vertical velocity") :
          files[k].name = "fig_averageVertical_velocity.pdf"
    /\ \E k \in FilesOf("Grid km") : files[k].name = "Gridkm0_2_1.pdf"

-----------------------------------------------------------------------------
(* Figure lifecycle of rprof_cmd *)

RunEnded == pc \in {"returned", "raised"}

\* C9: when a run of rprof_cmd has ended, every figure it created has been
\* saved exactly once and is closed, and no figure is open
C9_FiguresSavedOnceThenClosed ==
    RunEnded =>
        /\ \A f \in 1..Len(plt.figs) :
              plt.figs[f].saved = 1 /\ plt.figs[f].closed
        /\ plt.open = << >>

-----------------------------------------------------------------------------
(* Plot-type gating of rprof_cmd *)

DifferenceEnabled ==
    /\ args0.plot_difference
    /\ args0.plot_conctheo
    /\ args0.plot_temperature
    /\ args0.plot_concentration

Written(name) == \E k \in 1..Len(files) : files[k].name = name

DifferenceWritten ==
    /\ Written("Difference_to_overturned" \o RangeText \o ".pdf")
    /\ \E k \in 1..Len(files) : files[k].name = "statmin.dat" /\ files[k].lines = 2

\* C10: when a run of rprof_cmd has ended, no exception was raised by a plot
\* type that is not enabled, the difference figure and statmin.dat are written
\* exactly when difference tracking was requested with conctheo, temperature and
\* concentration all enabled, and statmin.dat is only written once k_fe, ra0,
\* imint, sigma and iminc are bound
C10_DifferenceOutputsExactlyWhenEnabled ==
    /\ RunEnded => (DifferenceWritten <=> DifferenceEnabled)
    /\ (RunEnded /\ ~DifferenceEnabled) => raised = "none"
    /\ Written("statmin.dat") =>
          {"k_fe", "ra0", "imint", "sigma", "iminc"} \subseteq DOMAIN assigned

-----------------------------------------------------------------------------
(* Slice completeness *)

\* the Profile Table, each row standing for its own row number
data == range(0, SumSeq(steprows), 1)

\* lines 143-144: data[ir0:ir1, vartuple] and data[ir0:ir1, 0]
profiles == Slice(data, ir0, ir1)
radius == Slice(data, ir0, ir1)

\* the rows of the Profile Table that hold timestep s
DepthLevels(s) == range(RowsBefore(s), RowsBefore(s) + steprows[s], 1)

-----------------------------------------------------------------------------
(* Difference tracking time axis *)

\* line 152: the simulation time of timestep s is tsteps[s - 1, 2], and it grows
\* with s, so a row of tsteps stands for its time
TimeRowOf(s) == s - 1

\* the row of tsteps of the timestep that produced entry imin of a series
ProducingRow(imin) == TimeRowOf(difSeries(timestep)[imin + 1])

\* C12: in a run with difference tracking the series has one entry per selected
\* timestep, the time arrays of Concentration and Temperature have as many
\* entries as the series, and the time returned for the minimum (first value
\* returned, for the index iminc or imint) is the time of the timestep that
\* produced the minimum
C12_DifferenceTimeAxis ==
    /\ (pc # "rprof_cmd" /\ args.plot_difference) =>
          /\ difSeries(timestep) = range(istart + 1, ilast + 1, istep)
          /\ concentrationTimes(timestep) = Len(difSeries(timestep))
          /\ temperatureTimes(timestep) = Len(difSeries(timestep))
    /\ Len(ret) = 4 => ret[1] = ProducingRow(ret[3])
    /\ Len(ret) = 7 => ret[1] = ProducingRow(ret[5])

=============================================================================
